---- MODULE Spec2Model ----
(***************************************************************************)
(* Model of the matching / deduplication engine of OAPipeV3:               *)
(*   preprocess.py : strip_markup, clean_mathml, collapse_whitespace,      *)
(*                   clean_title, normalize_author_name                    *)
(*   main.py       : compute_similarity, compare_metadata, zotero_query,   *)
(*                   evaluate_match, find_matching_titles, adaptive_query  *)
(*                                                                         *)
(* A Python string is a sequence of one-character strings.  A character    *)
(* outside ASCII is written as a token naming its code point ("u2013").    *)
(***************************************************************************)
EXTENDS Integers, Sequences, FiniteSets, TLC

VARIABLES
    \* clean_title applied once and twice (SpecTitle)
    rawTitle, cleaned1, cleaned2, ctpc,
    \* normalize_author_name applied to three written forms (SpecAuthor)
    surname, given, nameKeys, napc,
    \* compare_metadata / evaluate_match on one candidate (SpecScore, SpecEval, SpecMalformed)
    candEntry, tgtMeta, tgtClean, scoreOut, evalOut, epc,
    \* adaptive_query for one target item (Spec)
    title, metadata, thresholds, ti, pc, cleanedTitle, queries, qi,
    searchResults, found, result, raised, calls, titleStats, returned

varsTitle == <<rawTitle, cleaned1, cleaned2, ctpc>>
varsAuthor == <<surname, given, nameKeys, napc>>
varsEval == <<candEntry, tgtMeta, tgtClean, scoreOut, evalOut, epc>>
varsPipe == <<title, metadata, thresholds, ti, pc, cleanedTitle, queries, qi,
              searchResults, found, result, raised, calls, titleStats, returned>>
vars == <<varsTitle, varsAuthor, varsEval, varsPipe>>

\* ------------------------------------------------------------------ bounds
\* longest raw title drawn for clean_title
MaxTitleLen == 4
\* longest surname / given name drawn for normalize_author_name
MaxWordLen == 2
\* longest creators list drawn for the target of compare_metadata
MaxCreators == 3
\* most candidate records one search call returns
MaxResults == 2

\* ------------------------------------------------------- Python str helpers
Min(a, b) == IF a <= b THEN a ELSE b
Max(a, b) == IF a >= b THEN a ELSE b

SeqsUpTo(S, n) == UNION {[1..k -> S] : k \in 0..n}

\* the characters str.isspace and the regex class \s hold for
SpaceChars == {" ", "\t", "\n"}
IsSpace(c) == c \in SpaceChars

LowerLetters == {"a","b","c","d","e","f","g","h","i","j","k","l","m",
                 "n","o","p","q","r","s","t","u","v","w","x","y","z"}
UpperLetters == {"A","B","C","D","E","F","G","H","I","J","K","L","M",
                 "N","O","P","Q","R","S","T","U","V","W","X","Y","Z"}
Digits == {"0","1","2","3","4","5","6","7","8","9"}

\* the regex class \w
IsWord(c) == c \in LowerLetters \cup UpperLetters \cup Digits \cup {"_"}

LowerChar(c) ==
    CASE c = "A" -> "a" [] c = "B" -> "b" [] c = "C" -> "c" [] c = "D" -> "d"
      [] c = "E" -> "e" [] c = "F" -> "f" [] c = "G" -> "g" [] c = "H" -> "h"
      [] c = "I" -> "i" [] c = "J" -> "j" [] c = "K" -> "k" [] c = "L" -> "l"
      [] c = "M" -> "m" [] c = "N" -> "n" [] c = "O" -> "o" [] c = "P" -> "p"
      [] c = "Q" -> "q" [] c = "R" -> "r" [] c = "S" -> "s" [] c = "T" -> "t"
      [] c = "U" -> "u" [] c = "V" -> "v" [] c = "W" -> "w" [] c = "X" -> "x"
      [] c = "Y" -> "y" [] c = "Z" -> "z" [] c = "u00C5" -> "u00E5"
      [] OTHER -> c

\* str.lower
Lower(s) == [i \in 1..Len(s) |-> LowerChar(s[i])]

\* the characters of s at the positions of the set keep, in order
RECURSIVE KeepFrom(_, _, _)
KeepFrom(s, keep, i) ==
    IF i > Len(s) THEN <<>>
    ELSE (IF i \in keep THEN <<s[i]>> ELSE <<>>) \o KeepFrom(s, keep, i + 1)

\* str.strip
Strip(s) ==
    LET nonSpace == {i \in 1..Len(s) : ~IsSpace(s[i])}
    IN  IF nonSpace = {} THEN <<>>
        ELSE LET lo == CHOOSE i \in nonSpace : \A j \in nonSpace : i <= j
                 hi == CHOOSE i \in nonSpace : \A j \in nonSpace : i >= j
             IN  SubSeq(s, lo, hi)

\* str.split(): the maximal runs of non-whitespace
RECURSIVE SplitFrom(_, _, _)
SplitFrom(s, i, word) ==
    IF i > Len(s) THEN (IF word = <<>> THEN <<>> ELSE <<word>>)
    ELSE IF IsSpace(s[i])
         THEN (IF word = <<>> THEN <<>> ELSE <<word>>) \o SplitFrom(s, i + 1, <<>>)
         ELSE SplitFrom(s, i + 1, Append(word, s[i]))

Split(s) == SplitFrom(s, 1, <<>>)

\* " ".join(words)
RECURSIVE JoinSpace(_)
JoinSpace(words) ==
    IF words = <<>> THEN <<>>
    ELSE IF Len(words) = 1 THEN words[1]
    ELSE words[1] \o <<" ">> \o JoinSpace(Tail(words))

\* whether pat occurs in s starting at position i
HasAt(s, pat, i) ==
    /\ i + Len(pat) - 1 <= Len(s)
    /\ \A k \in 1..Len(pat) : s[i + k - 1] = pat[k]

\* re.sub(open .*? close, '', s): from left to right, every occurrence of open
\* is removed together with the text up to and including the nearest close that
\* follows it on the same line ('.' does not match a newline)
RECURSIVE RemoveDelimited(_, _, _, _)
RemoveDelimited(s, open, close, i) ==
    IF i > Len(s) THEN <<>>
    ELSE LET ends == {j \in (i + Len(open))..Len(s) :
                        /\ HasAt(s, close, j)
                        /\ \A k \in (i + Len(open))..(j - 1) : s[k] # "\n"}
         IN  IF HasAt(s, open, i) /\ ends # {}
             THEN LET j == CHOOSE e \in ends : \A f \in ends : e <= f
                  IN  RemoveDelimited(s, open, close, j + Len(close))
             ELSE <<s[i]>> \o RemoveDelimited(s, open, close, i + 1)

\* --------------------------------------------------------- preprocess.py
\* BeautifulSoup(text, "html.parser").get_text(): text that holds neither "<"
\* nor "&" has no tag and no entity and comes back as it is; no title of the
\* model holds either character
HtmlGetText(text) == text

strip_markup(text) ==
    LET t1 == HtmlGetText(text)
        t2 == RemoveDelimited(t1, <<"$">>, <<"$">>, 1)
        t3 == RemoveDelimited(t2, <<"\\", "(">>, <<"\\", ")">>, 1)
    IN  Strip(t3)

\* both patterns of clean_mathml need the literal "<mml:", which no title of
\* the model holds
clean_mathml(text) == text

\* re.sub(r'<[^>]+>', '', s)
RECURSIVE RemoveTags(_, _)
RemoveTags(s, i) ==
    IF i > Len(s) THEN <<>>
    ELSE LET ends == {j \in (i + 2)..Len(s) :
                        s[j] = ">" /\ \A k \in (i + 1)..(j - 1) : s[k] # ">"}
         IN  IF s[i] = "<" /\ ends # {}
             THEN RemoveTags(s, (CHOOSE e \in ends : TRUE) + 1)
             ELSE <<s[i]>> \o RemoveTags(s, i + 1)

DashVariants == {"u2010", "u2011", "u2012", "u2013", "u2014", "u2212"}

\* re.sub(r'[\u2010\u2011\u2012\u2013\u2014\u2212]', '-', s)
UnifyDashes(s) == [i \in 1..Len(s) |-> IF s[i] \in DashVariants THEN "-" ELSE s[i]]

\* the last and the first position of the run of characters of class that holds i
RECURSIVE RunEnd(_, _, _)
RunEnd(s, class, i) ==
    IF i < Len(s) /\ s[i + 1] \in class THEN RunEnd(s, class, i + 1) ELSE i

RECURSIVE RunStart(_, _, _)
RunStart(s, class, i) ==
    IF i > 1 /\ s[i - 1] \in class THEN RunStart(s, class, i - 1) ELSE i

\* re.sub(r'\s*-\s*', '-', s): a whitespace run that touches a hyphen is removed
TightenHyphens(s) ==
    LET touches(i) ==
            LET e == RunEnd(s, SpaceChars, i)
                b == RunStart(s, SpaceChars, i)
            IN  \/ (e < Len(s) /\ s[e + 1] = "-")
                \/ (b > 1 /\ s[b - 1] = "-")
    IN  KeepFrom(s, {i \in 1..Len(s) : ~(IsSpace(s[i]) /\ touches(i))}, 1)

TrailingPunct == {".", ",", ";", ":", "!", "?"}
IsPunct(c) == c \in TrailingPunct

\* re.sub(r'[\.,;:!?]+(?=\s|$)', '', s): a punctuation run is removed when
\* whitespace or the end of the string follows it
RemoveTrailingPunct(s) ==
    LET dropped(i) ==
            LET e == RunEnd(s, TrailingPunct, i)
            IN  IsPunct(s[i]) /\ (e = Len(s) \/ IsSpace(s[e + 1]))
    IN  KeepFrom(s, {i \in 1..Len(s) : ~dropped(i)}, 1)

\* re.sub(r'\s+', ' ', text).strip()
collapse_whitespace(text) ==
    LET later == {i \in 2..Len(text) : IsSpace(text[i]) /\ IsSpace(text[i - 1])}
        one == KeepFrom(text, (1..Len(text)) \ later, 1)
    IN  Strip([i \in 1..Len(one) |-> IF IsSpace(one[i]) THEN " " ELSE one[i]])

clean_title(t) ==
    LET t1 == strip_markup(t)
        t2 == clean_mathml(t1)
        t3 == RemoveTags(t2, 1)
        t4 == UnifyDashes(t3)
        t5 == TightenHyphens(t4)
        t6 == RemoveTrailingPunct(t5)
    IN  collapse_whitespace(t6)

\* unidecode(): the closest ASCII character
Unidecode(s) ==
    [i \in 1..Len(s) |-> CASE s[i] = "u00E5" -> "a" [] s[i] = "u00C5" -> "A" [] OTHER -> s[i]]

\* re.sub(r"[^\w\s]", "", name)
RemoveNonWord(name) ==
    KeepFrom(name, {i \in 1..Len(name) : IsWord(name[i]) \/ IsSpace(name[i])}, 1)

\* f"{last} {initials}" for two parts or more, and the name itself otherwise
LastAndInitials(name, name_parts) ==
    LET k == Len(name_parts)
    IN  IF k >= 2
        THEN name_parts[k] \o <<" ">> \o
             JoinSpace([i \in 1..(k - 1) |-> <<name_parts[i][1]>>])
        ELSE name

\* name_parts = name.split()
SplitName(name) == LastAndInitials(name, Split(name))

normalize_author_name(name) ==
    SplitName(RemoveNonWord(Unidecode(Strip(Lower(name)))))

\* ------------------------------------------------------- Python values
\* A field of a metadata record: the key is absent, or holds None, a str (s its
\* characters) or a non-zero int.
Absent == [t |-> "absent", s |-> <<>>]
None == [t |-> "none", s |-> <<>>]
Str(x) == [t |-> "str", s |-> x]
IntVal == [t |-> "int", s |-> <<>>]

\* dict.get(key): None for an absent key
Get(v) == IF v.t = "absent" THEN None ELSE v

\* dict.get(key, default)
GetOr(v, default) == IF v.t = "absent" THEN default ELSE v

\* the truth value of a Python value: None and '' are false
Truthy(v) == (v.t = "str" /\ v.s # <<>>) \/ v.t = "int"

\* a or b
PyOr(a, b) == IF Truthy(a) THEN a ELSE b

\* the outcome of a call: a returned value, or an exception raised
Ok(v) == [raised |-> FALSE, val |-> v]
Raise == [raised |-> TRUE, val |-> <<>>]

\* the creators field: absent, None, a non-zero int, a str, or a list of entries
NoCreators == [t |-> "absent", items |-> <<>>]
CreatorList(cs) == [t |-> "list", items |-> cs]
\* dict.get('creators'): None for an absent key
GetCreators(cv) == IF cv.t = "absent" THEN [t |-> "none", items |-> <<>>] ELSE cv
\* a creator entry that is a dict, and one that is not
Creator(family, lastName) == [isDict |-> TRUE, family |-> family, lastName |-> lastName]
NotACreator == [isDict |-> FALSE, family |-> Absent, lastName |-> Absent]

\* a metadata record that is a dict, and a value that is not
Meta(ttl, doi, issn, date, itemType, creators) ==
    [isDict |-> TRUE, title |-> ttl, DOI |-> doi, ISSN |-> issn, date |-> date,
     itemType |-> itemType, creators |-> creators]
EmptyDict == Meta(Absent, Absent, Absent, Absent, Absent, NoCreators)
NotADict == [EmptyDict EXCEPT !.isDict = FALSE]

\* a search result: {'key': ..., 'data': {...}}
Entry(key, data) == [isDict |-> TRUE, key |-> key, hasData |-> TRUE, data |-> data]

\* ------------------------------------------------- difflib.SequenceMatcher
\* the length of the common run of a from i and b from j, inside a[..ahi], b[..bhi]
RECURSIVE CommonLen(_, _, _, _, _, _)
CommonLen(a, b, i, j, ahi, bhi) ==
    IF i > ahi \/ j > bhi THEN 0
    ELSE IF a[i] # b[j] THEN 0
    ELSE 1 + CommonLen(a, b, i + 1, j + 1, ahi, bhi)

\* find_longest_match: the longest block a[i..i+k-1] = b[j..j+k-1] inside
\* a[alo..ahi], b[blo..bhi]; of the longest, the one earliest in a, then in b
LongestMatch(a, b, alo, ahi, blo, bhi) ==
    LET blocks == {<<i, j, CommonLen(a, b, i, j, ahi, bhi)>> : i \in alo..ahi, j \in blo..bhi}
        sizes == {blk[3] : blk \in blocks}
        kmax == IF sizes = {} THEN 0 ELSE CHOOSE k \in sizes : \A x \in sizes : x <= k
        best == {blk \in blocks : blk[3] = kmax}
        first == CHOOSE p \in best :
                    \A q \in best : p[1] < q[1] \/ (p[1] = q[1] /\ p[2] <= q[2])
    IN  IF kmax = 0 THEN [i |-> alo, j |-> blo, k |-> 0]
        ELSE [i |-> first[1], j |-> first[2], k |-> kmax]

\* get_matching_blocks: the characters matched, the longest block first and
\* then the pieces left and right of it
RECURSIVE MatchCount(_, _, _, _, _, _)
MatchCount(a, b, alo, ahi, blo, bhi) ==
    IF alo > ahi \/ blo > bhi THEN 0
    ELSE LET m == LongestMatch(a, b, alo, ahi, blo, bhi)
         IN  IF m.k = 0 THEN 0
             ELSE m.k + MatchCount(a, b, alo, m.i - 1, blo, m.j - 1)
                      + MatchCount(a, b, m.i + m.k, ahi, m.j + m.k, bhi)

\* a float that is the ratio num / den, in lowest terms; 1.0 is One
One == [num |-> 1, den |-> 1]

RECURSIVE Gcd(_, _)
Gcd(m, n) == IF n = 0 THEN m ELSE Gcd(n, m % n)

Fraction(n, d) == [num |-> n \div Gcd(n, d), den |-> d \div Gcd(n, d)]

\* SequenceMatcher(None, a, b).ratio(): 2.0 * matches / (len(a) + len(b)),
\* and 1.0 for two empty strings
compute_similarity(a, b) ==
    IF Len(a) + Len(b) = 0 THEN One
    ELSE Fraction(2 * MatchCount(a, b, 1, Len(a), 1, Len(b)), Len(a) + Len(b))

\* similarity >= pct / 100
SimAtLeast(sim, pct) == sim.num * 100 >= pct * sim.den

\* --------------------------------------------------------------- main.py
\* {normalize_author_name(c.get('family') or c.get('lastName', ''))
\*    for c in creators if isinstance(c, dict)}, as the list of the keys
CreatorName(c) == PyOr(Get(c.family), GetOr(c.lastName, Str(<<>>)))

CreatorKeyList(creators) ==
    IF creators.t \in {"none", "int"} THEN Raise
    ELSE IF creators.t # "list" THEN Ok(<<>>)
    ELSE LET dicts == SelectSeq(creators.items, LAMBDA c : c.isDict)
         IN  IF \E i \in 1..Len(dicts) : CreatorName(dicts[i]).t # "str" THEN Raise
             ELSE Ok([i \in 1..Len(dicts) |-> normalize_author_name(CreatorName(dicts[i]).s)])

\* the set of the keys of a list
KeysAsSet(ks) == IF ks.raised THEN Raise ELSE Ok({ks.val[i] : i \in 1..Len(ks.val)})

CreatorKeySet(creators) == KeysAsSet(CreatorKeyList(creators))

\* mutant: the identifiers compared without lower-casing
SameIdentifier_CaseSensitive(a, b) == Strip(a.s) = Strip(b.s)

\* a['DOI'].strip().lower() == b['DOI'].strip().lower()
SameIdentifier(a, b) == Lower(Strip(a.s)) = Lower(Strip(b.s))

\* the score of two dicts, creators_a and creators_b their sets of author keys
ScoreOfDicts(item, target, creators_a, creators_b) ==
    LET doiBoth == Truthy(Get(item.DOI)) /\ Truthy(Get(target.DOI))
        dateBoth == Truthy(Get(item.date)) /\ Truthy(Get(target.date))
        score1 == IF doiBoth /\ SameIdentifier(item.DOI, target.DOI) THEN 5 ELSE 0
        score2 == score1 + (IF dateBoth /\ item.date = target.date THEN 2 ELSE 0)
        score3 == score2 + (IF Get(item.itemType) = Get(target.itemType) THEN 1 ELSE 0)
        intersection == creators_a.val \cap creators_b.val
        overlap == \/ Cardinality(intersection) >= 2
                   \/ 2 * Cardinality(intersection) >= Max(Cardinality(creators_b.val), 1)
    IN  IF doiBoth /\ (item.DOI.t # "str" \/ target.DOI.t # "str") THEN Raise
        ELSE IF creators_a.raised \/ creators_b.raised THEN Raise
        ELSE Ok(score3 + (IF overlap THEN 2 ELSE 0))

compare_metadata(item, target) ==
    IF ~item.isDict \/ ~target.isDict THEN Ok(0)
    ELSE ScoreOfDicts(item, target, CreatorKeySet(item.creators),
                      CreatorKeySet(target.creators))

\* the dict evaluate_match returns
MatchOf(entry, data, candidate_title, similarity, score) ==
    [title |-> candidate_title, similarity |-> similarity, score |-> score,
     DOI |-> Get(data.DOI), ISSN |-> Get(data.ISSN), creators |-> GetCreators(data.creators),
     date |-> Get(data.date), itemType |-> Get(data.itemType), key |-> Get(entry.key)]

\* the score of an exact DOI or ISSN match
ExactScore == 999

\* mutant: the identifier rule of evaluate_match comparing case-sensitively
ExactMatch_CaseSensitive(a, b) ==
    Truthy(Get(a)) /\ Truthy(Get(b)) /\ Strip(a.s) = Strip(b.s)

\* data.get(k) and target.get(k) and data[k].strip().lower() == target[k].strip().lower()
ExactMatch(a, b) == Truthy(Get(a)) /\ Truthy(Get(b)) /\ SameIdentifier(a, b)

\* mutant: the upper threshold taken strictly
AcceptedByThreshold_Strict(similarity, metadata_score) ==
    similarity.num * 100 > 80 * similarity.den
    \/ (SimAtLeast(similarity, 76) /\ metadata_score >= 5)

\* similarity >= 0.80 or (similarity >= 0.76 and metadata_score >= 5)
AcceptedByThreshold(similarity, metadata_score) ==
    SimAtLeast(similarity, 80) \/ (SimAtLeast(similarity, 76) /\ metadata_score >= 5)

\* the end of evaluate_match: the match when the thresholds accept it
MatchByThreshold(entry, data, candidate_title, similarity, metadata_score) ==
    IF metadata_score.raised THEN Raise
    ELSE IF AcceptedByThreshold(similarity, metadata_score.val)
         THEN Ok(<<MatchOf(entry, data, candidate_title, similarity, metadata_score.val)>>)
         ELSE Ok(<<>>)

\* returns Ok(<<>>) for None and Ok(<<m>>) for the match m
evaluate_match(entry, cleaned_target_title, target_metadata) ==
    IF ~entry.isDict THEN Raise
    ELSE
    LET data == IF entry.hasData THEN entry.data ELSE EmptyDict
    IN  IF ~data.isDict THEN Raise
    ELSE
    LET candidate_title == GetOr(data.title, Str(<<>>))
        doiCand == Truthy(Get(data.DOI))
        issnCand == Truthy(Get(data.ISSN))
    IN  IF candidate_title.t # "str" THEN Raise
        ELSE IF doiCand /\ ~target_metadata.isDict THEN Raise
        ELSE IF doiCand /\ Truthy(Get(target_metadata.DOI))
                /\ (data.DOI.t # "str" \/ target_metadata.DOI.t # "str") THEN Raise
        ELSE IF ExactMatch(data.DOI, target_metadata.DOI)
             THEN Ok(<<MatchOf(entry, data, candidate_title.s, One, ExactScore)>>)
        ELSE IF issnCand /\ ~target_metadata.isDict THEN Raise
        ELSE IF issnCand /\ Truthy(Get(target_metadata.ISSN))
                /\ (data.ISSN.t # "str" \/ target_metadata.ISSN.t # "str") THEN Raise
        ELSE IF ExactMatch(data.ISSN, target_metadata.ISSN)
             THEN Ok(<<MatchOf(entry, data, candidate_title.s, One, ExactScore)>>)
        ELSE MatchByThreshold(entry, data, candidate_title.s,
                              compute_similarity(cleaned_target_title,
                                                 clean_title(candidate_title.s)),
                              compare_metadata(data, target_metadata))

\* ------------------------------------------------ idle values per group
\* Each specification drives one group of variables; the others keep these.
IdleTitle == rawTitle = <<>> /\ cleaned1 = <<>> /\ cleaned2 = <<>> /\ ctpc = "idle"
IdleAuthor == surname = <<>> /\ given = <<>> /\ nameKeys = <<>> /\ napc = "idle"
IdleEval ==
    /\ candEntry = <<>> /\ tgtMeta = <<>> /\ tgtClean = <<>>
    /\ scoreOut = <<>> /\ evalOut = <<>> /\ epc = "idle"
IdlePipe ==
    /\ title = <<>> /\ metadata = <<>> /\ thresholds = <<>> /\ ti = 0
    /\ pc = "idle" /\ cleanedTitle = <<>> /\ queries = <<>> /\ qi = 0
    /\ searchResults = <<>> /\ found = <<>> /\ result = <<>>
    /\ raised = FALSE /\ calls = <<>> /\ titleStats = <<>> /\ returned = <<>>

\* ------------------------------------------------- clean_title, once and twice
TitleChars == {"a", " ", "-", ".", "$", "u2013"}

InitTitle ==
    /\ rawTitle \in SeqsUpTo(TitleChars, MaxTitleLen)
    /\ cleaned1 = <<>> /\ cleaned2 = <<>> /\ ctpc = "raw"
    /\ IdleAuthor /\ IdleEval /\ IdlePipe

CleanOnce ==
    /\ ctpc = "raw"
    /\ cleaned1' = clean_title(rawTitle)
    /\ ctpc' = "once"
    /\ UNCHANGED <<rawTitle, cleaned2, varsAuthor, varsEval, varsPipe>>

CleanTwice ==
    /\ ctpc = "once"
    /\ cleaned2' = clean_title(cleaned1)
    /\ ctpc' = "twice"
    /\ UNCHANGED <<rawTitle, cleaned1, varsAuthor, varsEval, varsPipe>>

NextTitle == CleanOnce \/ CleanTwice

SpecTitle == InitTitle /\ [][NextTitle]_vars

\* ------------------------------- normalize_author_name on three written forms
NameLetters == {"j", "s", "J", "S"}

NameWords == SeqsUpTo(NameLetters, MaxWordLen) \ {<<>>}

\* "g. S", "G S" and "S, g" for surname S and given name G with initial g
WrittenForms(S, G) ==
    << <<G[1]>> \o <<".", " ">> \o S,
       G \o <<" ">> \o S,
       S \o <<",", " ">> \o <<G[1]>> >>

InitAuthor ==
    /\ surname \in NameWords /\ given \in NameWords
    /\ nameKeys = <<>> /\ napc = "forms"
    /\ IdleTitle /\ IdleEval /\ IdlePipe

NormalizeForm ==
    /\ napc = "forms"
    /\ Len(nameKeys) < 3
    /\ nameKeys' = Append(nameKeys,
                          normalize_author_name(WrittenForms(surname, given)[Len(nameKeys) + 1]))
    /\ UNCHANGED <<surname, given, napc, varsTitle, varsEval, varsPipe>>

NormalizeDone ==
    /\ napc = "forms"
    /\ Len(nameKeys) = 3
    /\ napc' = "done"
    /\ UNCHANGED <<surname, given, nameKeys, varsTitle, varsEval, varsPipe>>

NextAuthor == NormalizeForm \/ NormalizeDone

SpecAuthor == InitAuthor /\ [][NextAuthor]_vars

\* ------------------------------------ compare_metadata and evaluate_match
Smith == <<"S", "m", "i", "t", "h">>
smith == <<"s", "m", "i", "t", "h">>
Lee == <<"L", "e", "e">>
Wu == <<"W", "u">>
Kim == <<"K", "i", "m">>
Y2020 == <<"2", "0", "2", "0">>
Y2021 == <<"2", "0", "2", "1">>
Article == <<"a", "r", "t", "i", "c", "l", "e">>
Book == <<"b", "o", "o", "k">>

Family(name) == Creator(Str(name), Absent)
LastName(name) == Creator(Absent, Str(name))

\* the records compare_metadata is scored on: every field present or absent,
\* identifiers that differ in case and padding, creators lists with repeats
ScoreItems ==
    {Meta(Absent, doi, Absent, date, itemType, CreatorList(cs)) :
        doi \in {Absent, Str(<<"x">>)},
        date \in {Absent, Str(Y2020)},
        itemType \in {Absent, Str(Article)},
        cs \in {<<>>, <<LastName(smith)>>, <<Family(Lee)>>, <<LastName(smith), Family(Lee)>>}}

ScoreTargets ==
    {Meta(Absent, doi, Absent, date, itemType, CreatorList(cs)) :
        doi \in {Absent, Str(<<"X", " ">>), Str(<<"y">>)},
        date \in {Str(Y2020), Str(Y2021)},
        itemType \in {Absent, Str(Article), Str(Book)},
        cs \in SeqsUpTo({Family(Smith), Family(Lee), Family(Wu)}, MaxCreators)}

InitScore ==
    /\ candEntry \in {Entry(Str(<<"k">>), d) : d \in ScoreItems}
    /\ tgtMeta \in ScoreTargets
    /\ tgtClean = <<>> /\ scoreOut = <<>> /\ evalOut = <<>> /\ epc = "ready"
    /\ IdleTitle /\ IdleAuthor /\ IdlePipe

ScoreMetadata ==
    /\ epc = "ready"
    /\ scoreOut' = compare_metadata(candEntry.data, tgtMeta)
    /\ epc' = "scored"
    /\ UNCHANGED <<candEntry, tgtMeta, tgtClean, evalOut, varsTitle, varsAuthor, varsPipe>>

SpecScore == InitScore /\ [][ScoreMetadata]_vars

\* cleaned target title "x-ray dose" and candidate titles at similarity
\* 1.0, 0.8, 0.78 and 0.13 to it
XrayDose == <<"x", "-", "r", "a", "y", " ", "d", "o", "s", "e">>
EvalCandidateTitles ==
    {Absent,
     Str(<<"x", " ", "-", " ", "r", "a", "y", " ", "d", "o", "s", "e", ".">>),
     Str(<<"x", "-", "r", "a", "y", " ", "d", "o", "q", "q">>),
     Str(<<"x", "-", "r", "a", "y", " ", "d", "q">>),
     Str(<<"g", "a", "m", "m", "a">>)}

EvalEntries ==
    {Entry(Str(<<"k">>), Meta(ttl, doi, issn, date, itemType, CreatorList(cs))) :
        ttl \in EvalCandidateTitles,
        doi \in {Absent, Str(<<" ", "D", "1">>)},
        issn \in {Absent, Str(<<"I", "1", " ">>)},
        date \in {Absent, Str(Y2020)},
        itemType \in {Absent, Str(Article)},
        cs \in {<<>>, <<LastName(smith), Family(Wu)>>}}

EvalTargets ==
    {Meta(Absent, doi, issn, date, itemType, CreatorList(cs)) :
        doi \in {Absent, Str(<<"d", "1">>), Str(<<"d", "2">>)},
        issn \in {Absent, Str(<<"i", "1">>), Str(<<"i", "2">>)},
        date \in {Str(Y2020), Str(Y2021)},
        itemType \in {Str(Article), Str(Book)},
        cs \in {<<Family(Smith), Family(Lee)>>, <<Family(Kim)>>}}

InitEval ==
    /\ candEntry \in EvalEntries
    /\ tgtMeta \in EvalTargets
    /\ tgtClean \in {XrayDose, <<>>}
    /\ scoreOut = <<>> /\ evalOut = <<>> /\ epc = "ready"
    /\ IdleTitle /\ IdleAuthor /\ IdlePipe

Evaluate ==
    /\ epc = "ready"
    /\ evalOut' = evaluate_match(candEntry, tgtClean, tgtMeta)
    /\ epc' = "evaluated"
    /\ UNCHANGED <<candEntry, tgtMeta, tgtClean, scoreOut, varsTitle, varsAuthor, varsPipe>>

SpecEval == InitEval /\ [][Evaluate]_vars

\* malformed input: values that are not records, fields of the wrong type,
\* creators that are null or no list, creator entries without a usable name
MalformedData ==
    {NotADict} \cup
    {Meta(ttl, doi, Absent, Absent, Absent, cv) :
        ttl \in {Absent, None, Str(XrayDose)},
        doi \in {Absent, None, IntVal, Str(<<"d", "1">>)},
        cv \in {NoCreators, [t |-> "none", items |-> <<>>],
                CreatorList(<<NotACreator, LastName(smith)>>),
                CreatorList(<<Creator(None, Absent)>>),
                CreatorList(<<Creator(Absent, None)>>)}}

MalformedEntries ==
    {[isDict |-> FALSE, key |-> Absent, hasData |-> FALSE, data |-> EmptyDict],
     [isDict |-> TRUE, key |-> Str(<<"k">>), hasData |-> FALSE, data |-> EmptyDict]}
    \cup {Entry(Str(<<"k">>), d) : d \in MalformedData}

MalformedTargets ==
    {NotADict} \cup
    {Meta(Absent, doi, Absent, Absent, Absent, cv) :
        doi \in {Absent, IntVal, Str(<<"d", "1">>)},
        cv \in {NoCreators, [t |-> "none", items |-> <<>>],
                [t |-> "int", items |-> <<>>], [t |-> "str", items |-> <<>>],
                CreatorList(<<NotACreator, Family(Smith)>>),
                CreatorList(<<Creator(Absent, Absent)>>),
                CreatorList(<<Creator(Absent, None)>>)}}

InitMalformed ==
    /\ candEntry \in MalformedEntries
    /\ tgtMeta \in MalformedTargets
    /\ tgtClean = XrayDose
    /\ scoreOut = <<>> /\ evalOut = <<>> /\ epc = "ready"
    /\ IdleTitle /\ IdleAuthor /\ IdlePipe

NextMalformed == ScoreMetadata \/ Evaluate

SpecMalformed == InitMalformed /\ [][NextMalformed]_vars

\* C7: clean_title is idempotent: cleaning a cleaned title changes nothing.
C7_CleanTitleIdempotent == ctpc = "twice" => cleaned2 = cleaned1

\* C9: the written forms "g. S", "G S" and "S, g" of one name all give the
\* key made of the full surname followed by the initial of the given name.
C9_WrittenFormsCollapse ==
    napc = "done" =>
        \A k \in 1..3 : nameKeys[k] = Lower(surname) \o <<" ">> \o <<LowerChar(given[1])>>

\* ---------------------------------- find_matching_titles, adaptive_query
Articles == {<<"t", "h", "e">>, <<"a">>, <<"a", "n">>}

remove_leading_articles(text) ==
    LET words == Split(text)
    IN  IF words # <<>> /\ Lower(words[1]) \in Articles
        THEN JoinSpace(Tail(words))
        ELSE text

\* cleaned_title[:query_len].strip()
QueryString(cleaned_title, query_len) ==
    Strip(SubSeq(cleaned_title, 1, Min(query_len, Len(cleaned_title))))

\* mutant: the title searched twice
Queries_Twice(query_string) == <<query_string, query_string>>

\* queries = [query_string]
Queries(query_string) == <<query_string>>

\* what the library answers to one zot.items call: an exception, or records
LibraryAnswer(fails, items) == [fails |-> fails, items |-> items]

\* mutant: zotero_query without its try/except
zotero_query_NoCatch(query_string, answer) ==
    IF answer.fails THEN Raise ELSE Ok(answer.items)

\* try: return zot.items(q=strip_markup(query_string), limit=limit)
\* except Exception: return []
zotero_query(query_string, answer) ==
    IF answer.fails THEN Ok(<<>>) ELSE Ok(answer.items)

\* matches.append(match), an exception of either part leaving the loop
AppendMatch(match, rest) ==
    IF match.raised \/ rest.raised THEN Raise ELSE Ok(match.val \o rest.val)

\* for item in search_results: match = evaluate_match(...); if match: matches.append(match)
RECURSIVE EvaluateAll(_, _, _)
EvaluateAll(search_results, cleaned_title, target_metadata) ==
    IF search_results = <<>> THEN Ok(<<>>)
    ELSE AppendMatch(evaluate_match(search_results[1], cleaned_title, target_metadata),
                     EvaluateAll(Tail(search_results), cleaned_title, target_metadata))

\* the sort key (x['score'], x['similarity']) of a is below that of b
KeyBelow(a, b) ==
    \/ a.score < b.score
    \/ /\ a.score = b.score
       /\ a.similarity.num * b.similarity.den < b.similarity.num * a.similarity.den

\* matches.sort(key=..., reverse=True): descending and stable
RECURSIVE SortMatches(_)
SortMatches(matches) ==
    IF matches = <<>> THEN <<>>
    ELSE LET n == Len(matches)
             sorted == SortMatches(SubSeq(matches, 1, n - 1))
             x == matches[n]
             before == SelectSeq(sorted, LAMBDA y : ~KeyBelow(y, x))
             after == SelectSeq(sorted, LAMBDA y : KeyBelow(y, x))
         IN  before \o <<x>> \o after

\* if creators: a list is true when it is not empty
CreatorsTruthy(creators) ==
    (creators.t = "list" /\ creators.items # <<>>) \/ creators.t \in {"int", "str"}

\* " ".join(creator_names).strip()
JoinedNames(names) == IF names.raised THEN Raise ELSE Ok(Strip(JoinSpace(names.val)))

CreatorQueryString(target_metadata) == JoinedNames(CreatorKeyList(target_metadata.creators))

\* mutant: the fallback reached although the title search matched
NeedsCreatorQuery_AfterMatch(matches, target_metadata) ==
    /\ CreatorsTruthy(target_metadata.creators)
    /\ CreatorQueryString(target_metadata).val # <<>>

\* the fallback is reached with no match, and searched when the target has
\* creators and their keys give a query that is not empty
NeedsCreatorQuery(matches, target_metadata) ==
    /\ matches = <<>>
    /\ CreatorsTruthy(target_metadata.creators)
    /\ CreatorQueryString(target_metadata).val # <<>>

\* mutant: the test of adaptive_query inverted
StopsWith_Inverted(results) == results = <<>>

\* adaptive_query: if results: return results
StopsWith(results) == results # <<>>

\* thresholds=[80, 40, 20]
DefaultThresholds == <<80, 40, 20>>
\* a caller's shorter lengths, which cut the titles of the model
ShortThresholds == <<4, 2>>

\* the target items, as __main__ builds them: a stripped lower-case title and
\* the keys title, DOI, date, itemType, creators
PipeTarget(ttl, doi, creators) ==
    [title |-> ttl,
     metadata |-> Meta(Str(ttl), Str(doi), Absent, Str(Y2020), Str(Article),
                       CreatorList(creators))]

Xray == <<"x", "-", "r", "a", "y">>

PipeTargets ==
    {PipeTarget(<<"t", "h", "e", " ", "x", " ", "-", " ", "r", "a", "y", ".">>,
                <<"d", "1">>, <<Family(Smith), Family(<<"J", ".", " ", "W", "u">>)>>),
     PipeTarget(Xray, <<>>, <<>>),
     PipeTarget(Xray, <<"d", "2">>, <<Family(<<>>)>>),
     PipeTarget(<<"g", "a", "m", "m", "a">>, <<>>, <<LastName(Lee)>>)}

\* the records the library holds
PipeLibrary ==
    {Entry(Str(<<"k", "1">>),
           Meta(Str(<<"x", "-", "r", "a", "y", ".">>), Absent,
                Absent, Str(Y2020), Str(Article), CreatorList(<<LastName(smith)>>))),
     Entry(Str(<<"k", "2">>),
           Meta(Str(<<"b", "e", "t", "a">>), Str(<<" ", "D", "1">>),
                Absent, Str(Y2021), Str(Book), CreatorList(<<Family(Kim)>>)))}

LibraryAnswers ==
    {LibraryAnswer(TRUE, <<>>)} \cup
    {LibraryAnswer(FALSE, items) : items \in SeqsUpTo(PipeLibrary, MaxResults)}

Init ==
    /\ \E t \in PipeTargets : title = t.title /\ metadata = t.metadata
    /\ thresholds \in {DefaultThresholds, ShortThresholds}
    /\ ti = 1 /\ pc = "adaptive"
    /\ cleanedTitle = <<>> /\ queries = <<>> /\ qi = 0
    /\ searchResults = <<>> /\ found = <<>> /\ result = <<>>
    /\ raised = FALSE /\ calls = <<>> /\ titleStats = <<>> /\ returned = <<>>
    /\ IdleTitle /\ IdleAuthor /\ IdleEval

\* an exception leaves adaptive_query
Propagate ==
    /\ raised' = TRUE
    /\ pc' = "done"
    /\ UNCHANGED <<ti, cleanedTitle, queries, qi, searchResults, found, result,
                   calls, titleStats, returned>>

\* for length in thresholds: find_matching_titles(title, metadata, query_len=length),
\* up to the title query
AdaptiveCall ==
    /\ pc = "adaptive"
    /\ ti <= Len(thresholds)
    /\ cleanedTitle' = remove_leading_articles(clean_title(title))
    /\ queries' = Queries(QueryString(cleanedTitle', thresholds[ti]))
    /\ qi' = 1
    /\ searchResults' = <<>>
    /\ found' = <<>>
    /\ pc' = "title"
    /\ UNCHANGED <<title, metadata, thresholds, ti, result, raised, calls,
                   titleStats, returned>>
    /\ UNCHANGED <<varsTitle, varsAuthor, varsEval>>

\* the thresholds are used up: return []
AdaptiveExhausted ==
    /\ pc = "adaptive"
    /\ ti > Len(thresholds)
    /\ result' = <<>>
    /\ pc' = "done"
    /\ UNCHANGED <<title, metadata, thresholds, ti, cleanedTitle, queries, qi,
                   searchResults, found, raised, calls, titleStats, returned>>
    /\ UNCHANGED <<varsTitle, varsAuthor, varsEval>>

\* for query in queries: search_results.extend(zotero_query(query))
TitleQuery ==
    /\ pc = "title"
    /\ qi <= Len(queries)
    /\ \E answer \in LibraryAnswers :
        \E r \in {zotero_query(queries[qi], answer)} :
            /\ calls' = Append(calls, [len |-> ti, kind |-> "title",
                                       q |-> strip_markup(queries[qi]),
                                       failed |-> answer.fails])
            /\ IF r.raised
               THEN /\ raised' = TRUE
                    /\ pc' = "done"
                    /\ UNCHANGED <<qi, searchResults>>
               ELSE /\ searchResults' = searchResults \o r.val
                    /\ qi' = qi + 1
                    /\ UNCHANGED <<raised, pc>>
    /\ UNCHANGED <<title, metadata, thresholds, ti, cleanedTitle, queries, found,
                   result, titleStats, returned>>
    /\ UNCHANGED <<varsTitle, varsAuthor, varsEval>>

\* the matches of the title search: returned sorted, or none and the fallback
TitleEvaluate ==
    /\ pc = "title"
    /\ qi > Len(queries)
    /\ \E matches \in {EvaluateAll(searchResults, cleanedTitle, metadata)} :
           IF matches.raised
           THEN Propagate
           ELSE /\ titleStats' = Append(titleStats, [candidates |-> Len(searchResults),
                                                     accepted |-> Len(matches.val)])
                /\ found' = SortMatches(matches.val)
                /\ pc' = IF NeedsCreatorQuery(matches.val, metadata)
                         THEN "creator" ELSE "return"
                /\ UNCHANGED <<ti, cleanedTitle, queries, qi, searchResults, result,
                               raised, calls, returned>>
    /\ UNCHANGED <<title, metadata, thresholds>>
    /\ UNCHANGED <<varsTitle, varsAuthor, varsEval>>

\* search_results = zotero_query(creator_query), its matches sorted and returned
CreatorQuery ==
    /\ pc = "creator"
    /\ \E answer \in LibraryAnswers :
        \E creator_query \in {CreatorQueryString(metadata).val} :
        \E r \in {zotero_query(creator_query, answer)} :
        \E matches \in {EvaluateAll(r.val, cleanedTitle, metadata)} :
            /\ calls' = Append(calls, [len |-> ti, kind |-> "creator",
                                       q |-> strip_markup(creator_query),
                                       failed |-> answer.fails])
            /\ IF r.raised \/ matches.raised
               THEN /\ raised' = TRUE
                    /\ pc' = "done"
                    /\ UNCHANGED <<searchResults, found>>
               ELSE /\ searchResults' = r.val
                    /\ found' = SortMatches(matches.val)
                    /\ pc' = "return"
                    /\ UNCHANGED raised
    /\ UNCHANGED <<title, metadata, thresholds, ti, cleanedTitle, queries, qi,
                   result, titleStats, returned>>
    /\ UNCHANGED <<varsTitle, varsAuthor, varsEval>>

\* results = find_matching_titles(...); if results: return results
AdaptiveReturn ==
    /\ pc = "return"
    /\ returned' = Append(returned, found)
    /\ IF StopsWith(found)
       THEN /\ result' = found
            /\ pc' = "done"
            /\ UNCHANGED ti
       ELSE /\ ti' = ti + 1
            /\ pc' = "adaptive"
            /\ UNCHANGED result
    /\ UNCHANGED <<title, metadata, thresholds, cleanedTitle, queries, qi,
                   searchResults, found, raised, calls, titleStats>>
    /\ UNCHANGED <<varsTitle, varsAuthor, varsEval>>

Next ==
    \/ AdaptiveCall
    \/ AdaptiveExhausted
    \/ TitleQuery
    \/ TitleEvaluate
    \/ CreatorQuery
    \/ AdaptiveReturn

Spec == Init /\ [][Next]_vars

\* ---------------------------------------------------------------- claims
\* the candidate's record as evaluate_match reads it
CandData == IF candEntry.hasData THEN candEntry.data ELSE EmptyDict

\* both records hold a non-empty identifier, equal after trimming and lower-casing
SameNonEmpty(a, b) ==
    /\ a.t = "str" /\ b.t = "str" /\ a.s # <<>> /\ b.s # <<>>
    /\ Lower(Strip(a.s)) = Lower(Strip(b.s))

\* the normalized author keys of a well-formed creators list
KeysOf(creators) ==
    {normalize_author_name(CreatorName(creators.items[i]).s) : i \in 1..Len(creators.items)}

SharedKeys(a, b) == Cardinality(KeysOf(a.creators) \cap KeysOf(b.creators))

DoiTerm(a, b) == IF SameNonEmpty(a.DOI, b.DOI) THEN 5 ELSE 0
DateTerm(a, b) == IF Truthy(a.date) /\ Truthy(b.date) /\ a.date = b.date THEN 2 ELSE 0

\* +1 as the claim words it: two itemType strings, exactly equal
TypeTermStrings(a, b) ==
    IF a.itemType.t = "str" /\ b.itemType.t = "str" /\ a.itemType.s = b.itemType.s
    THEN 1 ELSE 0
\* +1 when the two itemType values are equal, two absent ones included
TypeTermValues(a, b) == IF Get(a.itemType) = Get(b.itemType) THEN 1 ELSE 0

\* +2 as the claim words it: the ratio is taken over the target's creator count
CreatorTermByCount(a, b) ==
    IF SharedKeys(a, b) >= 2 \/ 2 * SharedKeys(a, b) >= Max(Len(b.creators.items), 1)
    THEN 2 ELSE 0
\* +2 with the ratio taken over the number of distinct keys of the target
CreatorTermByKeys(a, b) ==
    IF SharedKeys(a, b) >= 2
       \/ 2 * SharedKeys(a, b) >= Max(Cardinality(KeysOf(b.creators)), 1)
    THEN 2 ELSE 0

\* C8 as stated: the score is the sum of the DOI, date, itemType-strings and
\* creator-overlap terms, the overlap ratio taken over the target's creator
\* count, and lies in 0..10.
C8_ScoreAsStated ==
    epc = "scored" =>
        /\ ~scoreOut.raised
        /\ scoreOut.val = DoiTerm(CandData, tgtMeta) + DateTerm(CandData, tgtMeta)
                          + TypeTermStrings(CandData, tgtMeta)
                          + CreatorTermByCount(CandData, tgtMeta)
        /\ scoreOut.val \in 0..10

\* C8 amended: the score is the sum of the four terms, where the itemType term
\* is awarded whenever the two itemType values are equal (two records without
\* an itemType included) and the overlap ratio is taken over the number of
\* distinct normalized keys of the target; it lies in 0..10.
C8_ScoreIsSumOfTerms ==
    epc = "scored" =>
        /\ ~scoreOut.raised
        /\ scoreOut.val = DoiTerm(CandData, tgtMeta) + DateTerm(CandData, tgtMeta)
                          + TypeTermValues(CandData, tgtMeta)
                          + CreatorTermByKeys(CandData, tgtMeta)
        /\ scoreOut.val \in 0..10

\* a target naming one creator twice, whose repeat decides the overlap term,
\* scored together with an equal DOI
C8_Witness ==
    /\ epc = "scored"
    /\ CreatorTermByKeys(CandData, tgtMeta) = 2
    /\ CreatorTermByCount(CandData, tgtMeta) = 0
    /\ DoiTerm(CandData, tgtMeta) = 5
    /\ scoreOut.val >= 7

\* C6: malformed input never makes compare_metadata or evaluate_match raise.
C6_MalformedNeverRaises ==
    /\ epc = "scored" => ~scoreOut.raised
    /\ epc = "evaluated" => ~evalOut.raised

\* the title similarity and metadata score evaluate_match works with
CandSimilarity ==
    compute_similarity(tgtClean, clean_title(GetOr(CandData.title, Str(<<>>)).s))
CandScore == compare_metadata(CandData, tgtMeta).val

\* C3: evaluate_match returns a match exactly when the DOIs agree, or the ISSNs
\* agree, or similarity >= 0.80, or similarity >= 0.76 with metadataScore >= 5;
\* an identifier match carries score 999 and similarity 1.0 whatever the titles.
C3_MatchIffRule ==
    epc = "evaluated" =>
        LET byDoi == SameNonEmpty(CandData.DOI, tgtMeta.DOI)
            byIssn == SameNonEmpty(CandData.ISSN, tgtMeta.ISSN)
            byTitle == \/ CandSimilarity.num * 100 >= 80 * CandSimilarity.den
                       \/ /\ CandSimilarity.num * 100 >= 76 * CandSimilarity.den
                          /\ CandScore >= 5
        IN  /\ ~evalOut.raised
            /\ (evalOut.val # <<>>) <=> (byDoi \/ byIssn \/ byTitle)
            /\ (byDoi \/ byIssn) =>
                   /\ evalOut.val # <<>>
                   /\ evalOut.val[1].score = 999
                   /\ evalOut.val[1].similarity = One

\* an ISSN match between records whose DOIs differ and whose titles are far apart
C3_Witness ==
    /\ epc = "evaluated"
    /\ evalOut.val # <<>>
    /\ evalOut.val[1].score = 999
    /\ ~SameNonEmpty(CandData.DOI, tgtMeta.DOI)
    /\ Truthy(CandData.DOI) /\ Truthy(tgtMeta.DOI)
    /\ ~SimAtLeast(CandSimilarity, 76)

\* C10: a match has score 999 or a score in 0..5; below similarity 0.80 it is
\* accepted only with the date, itemType and creator terms all awarded and no
\* DOI term (score exactly 5).
C10_ScoreRange ==
    (epc = "evaluated" /\ evalOut.val # <<>>) =>
        LET m == evalOut.val[1]
        IN  /\ m.score = 999 \/ m.score \in 0..5
            /\ m.score # 999 => DoiTerm(CandData, tgtMeta) = 0
            /\ (m.score # 999 /\ ~SimAtLeast(m.similarity, 80)) =>
                   /\ m.score = 5
                   /\ DateTerm(CandData, tgtMeta) = 2
                   /\ TypeTermValues(CandData, tgtMeta) = 1
                   /\ CreatorTermByKeys(CandData, tgtMeta) = 2

\* a candidate at similarity 0.78 accepted on score 5, both DOIs present
C10_Witness ==
    /\ epc = "evaluated"
    /\ evalOut.val # <<>>
    /\ evalOut.val[1].score = 5
    /\ ~SimAtLeast(evalOut.val[1].similarity, 80)
    /\ Truthy(CandData.DOI) /\ Truthy(tgtMeta.DOI)

\* the calls made for the k-th length, and the title calls of the whole run
CallsFor(k) == SelectSeq(calls, LAMBDA c : c.len = k)
TitleCalls == SelectSeq(calls, LAMBDA c : c.kind = "title")
CreatorCalls(k) == SelectSeq(calls, LAMBDA c : c.len = k /\ c.kind = "creator")

\* the title of the target as find_matching_titles searches for it
SearchedTitle == remove_leading_articles(clean_title(title))

\* the lengths whose find_matching_titles call returned matches
NonEmptyLengths == {k \in 1..Len(returned) : returned[k] # <<>>}

\* C1: the lengths are tried in the given order, each with the title cut to
\* it; no search is made for a later length once a length gave matches; the
\* result is that of the first length that gave matches, and it is empty only
\* when every length gave none.
C1_FirstNonEmptyLength ==
    /\ \A k \in 1..Len(TitleCalls) :
         /\ TitleCalls[k].len = k
         /\ TitleCalls[k].q =
                Strip(SubSeq(SearchedTitle, 1, Min(thresholds[k], Len(SearchedTitle))))
    /\ \A i \in 1..Len(calls) : \A k \in NonEmptyLengths : calls[i].len <= k
    /\ pc = "done" =>
         IF NonEmptyLengths # {}
         THEN /\ result = returned[CHOOSE k \in NonEmptyLengths :
                                       \A j \in NonEmptyLengths : k <= j]
              /\ result # <<>>
         ELSE result = <<>> /\ Len(returned) = Len(thresholds)

\* the default lengths, nothing found at 80, a match returned at 40
C1_Witness ==
    /\ pc = "done"
    /\ thresholds = DefaultThresholds
    /\ Len(returned) = 2
    /\ returned[1] = <<>>
    /\ result # <<>>
    /\ result = returned[2]

\* C2: whatever search calls fail, adaptive_query raises nothing, a failed call
\* leaves no candidates, and an empty result is returned only after the title
\* query of every length and the creator query of every length that has one.
C2_FailedSearchIsEmpty ==
    /\ ~raised
    /\ (calls # <<>> /\ calls[Len(calls)].failed) => (searchResults = <<>> /\ found = <<>>)
    /\ (pc = "done" /\ result = <<>>) =>
         \A k \in 1..Len(thresholds) :
            /\ \E i \in 1..Len(calls) : calls[i].len = k /\ calls[i].kind = "title"
            /\ (CreatorsTruthy(metadata.creators) /\ CreatorQueryString(metadata).val # <<>>)
                 => \E i \in 1..Len(calls) : calls[i].len = k /\ calls[i].kind = "creator"

\* two failed calls, and then a query that yields an accepted match
C2_Witness ==
    /\ pc = "done"
    /\ Len(calls) >= 3
    /\ calls[1].failed /\ calls[2].failed
    /\ result # <<>>

\* C4: one find_matching_titles call makes at most two searches; the creator
\* search comes after the title search, only when that accepted no match and
\* the creator keys give a non-empty query; a title search with an accepted
\* match is the only search of its call.
C4_CreatorFallbackOnlyWithoutMatch ==
    \A k \in 1..Len(thresholds) :
        /\ Len(CallsFor(k)) <= 2
        /\ Len(CreatorCalls(k)) <= 1
        /\ CreatorCalls(k) # <<>> =>
             /\ CallsFor(k)[1].kind = "title"
             /\ k <= Len(titleStats)
             /\ titleStats[k].accepted = 0
             /\ Strip(JoinSpace(CreatorKeyList(metadata.creators).val)) # <<>>
             /\ CreatorCalls(k)[1].q = Strip(JoinSpace(CreatorKeyList(metadata.creators).val))
        /\ (k <= Len(titleStats) /\ titleStats[k].accepted >= 1) => Len(CallsFor(k)) = 1

\* a title search that returned candidates, none accepted, followed by the
\* creator search
C4_Witness ==
    \E k \in 1..Len(titleStats) :
        /\ titleStats[k].candidates > 0
        /\ titleStats[k].accepted = 0
        /\ CreatorCalls(k) # <<>>

\* C5 as stated: matching one target item makes at most two search calls.
C5_AtMostTwoCalls == Len(calls) <= 2

\* C5 amended: matching one target item makes at most two search calls for
\* each truncation length, 2 * len(thresholds) in all (six by default).
C5_AtMostTwoCallsPerLength == Len(calls) <= 2 * Len(thresholds)

\* the default lengths, a title and a creator search at each of the three
C5_Witness ==
    /\ pc = "done"
    /\ thresholds = DefaultThresholds
    /\ Len(calls) = 6

====
